---- MODULE Spec2Model ----
(***************************************************************************)
(* A model of app.py, the Streamlit face-recognition attendance script.    *)
(*                                                                         *)
(* Streamlit runs the whole script again for every interaction of a        *)
(* browser session, in a namespace of that run: every run starts with the  *)
(* module-level load_known_faces() of line 36 and then executes the one    *)
(* handler whose button was pressed.  The state shared by all sessions is  *)
(* the directory known_faces/ and the file attendance_web.csv.             *)
(*                                                                         *)
(* Abstractions.  A face encoding is a point of the integer plane in       *)
(* tenths (the library's 128 dimensions play no part in app.py), so the    *)
(* tolerance 0.6 is 6.  An image is the list of encodings the library      *)
(* finds in it, or unreadable.  A text is a sequence of characters;        *)
(* a file name is its stem and its extension.  The clock counts days: a    *)
(* Date cell is the day of line 41 and a Time cell the reading of line 47. *)
(*                                                                         *)
(* Assumed of the libraries: an uploaded image reaches the temporary file  *)
(* whole before line 94 opens it, and the image cv2.imwrite stores shows   *)
(* the faces of the image it was given.                                    *)
(***************************************************************************)
EXTENDS Integers, Sequences, FiniteSets, TLC

\* ---------------------------------------------------------------- bounds
\* files in known_faces/ beyond which Register accepts no new file
MaxFiles == 2

\* files uploaded in one Register
MaxBatch == 2

\* rows of the ledger beyond which the camera gives no frame with faces
MaxLedger == 2

\* days the clock runs
MaxDate == 2

\* line 60: tolerance=0.6, in tenths
tolerance == 6

Sessions == {1, 2}

\* ------------------------------------------------------------ characters
LowerOf(c) ==
    CASE c = "A" -> "a" [] c = "B" -> "b" [] c = "C" -> "c" [] OTHER -> c

UpperOf(c) ==
    CASE c = "a" -> "A" [] c = "b" -> "B" [] c = "c" -> "C" [] OTHER -> c

IsCased(c) == c \in {"a", "b", "c", "A", "B", "C"}

IsDigit(c) == c \in {"0", "1", "2", "3", "4", "5", "6", "7", "8", "9"}

\* str.replace(old, new) for one-character old and new
Replace(s, old, new) ==
    [i \in 1..Len(s) |-> IF s[i] = old THEN new ELSE s[i]]

\* str.title(): a cased character is upper-cased when it follows an uncased
\* one (or starts the text) and lower-cased when it follows a cased one
Title(s) ==
    [i \in 1..Len(s) |->
        IF i > 1 /\ IsCased(s[i - 1]) THEN LowerOf(s[i]) ELSE UpperOf(s[i])]

\* str.lower() on an extension
LowerExt(e) ==
    CASE e = "JPG" -> "jpg" [] e = "PNG" -> "png" [] OTHER -> e

\* ---------------------------------------------------------------- images
V0 == <<0, 0>>
V6 == <<6, 0>>
V10 == <<10, 0>>
VFar == <<30, 40>>

Img(fs) == [readable |-> TRUE, faces |-> fs]

Corrupt == [readable |-> FALSE, faces |-> <<>>]

\* face_recognition.face_encodings(image)
face_encodings(image) == image.faces

File(stem, ext) == [stem |-> stem, ext |-> ext]

\* what the Register form can be given (line 87-88)
NameInputs == {<<>>, <<"a">>, <<"1">>}

Uploads ==
    { [ext |-> "jpg", image |-> Img(<<V0>>)],
      [ext |-> "jpg", image |-> Img(<<V10, VFar>>)],
      [ext |-> "jpg", image |-> Img(<<>>)] }

\* what the camera can see (line 125)
Frames == {<<>>, <<V6>>, <<V0, V0>>, <<VFar, V6>>}

\* the directory as the first run of the script may find it (line 13)
EmptyDir == [f \in {} |-> Corrupt]

InitDirs ==
    { EmptyDir,
      (File(<<"b", "_", "c">>, "PNG") :> Img(<<V10>>))
          @@ (File(<<"n">>, "txt") :> Corrupt)
          @@ (File(<<"x">>, "jpg") :> Img(<<>>)),
      (File(<<"b", "_", "c">>, "PNG") :> Img(<<V10>>))
          @@ (File(<<"x">>, "jpeg") :> Corrupt) }

\* os.listdir(KNOWN_FACES_DIR): the entries in an arbitrary order
Listings(dir) ==
    LET n == Cardinality(DOMAIN dir)
    IN  {l \in [1..n -> DOMAIN dir] : \A f \in DOMAIN dir : \E i \in 1..n : l[i] = f}

\* LoadFrom with the name appended before the encoding is taken, so that a
\* faceless image leaves a name without a vector
RECURSIVE LoadFromNameFirst(_, _, _, _)
LoadFromNameFirst(dir, listing, i, acc) ==
    IF i > Len(listing) THEN acc
    ELSE LET filename == listing[i]
             image == dir[filename]
             named == [acc EXCEPT !.known_names =
                          Append(@, Title(Replace(filename.stem, "_", " ")))]
         IN  IF LowerExt(filename.ext) \notin {"png", "jpg", "jpeg"}
             THEN LoadFromNameFirst(dir, listing, i + 1, acc)
             ELSE IF ~image.readable
             THEN [acc EXCEPT !.raised = TRUE]
             ELSE IF Len(face_encodings(image)) = 0
             THEN LoadFromNameFirst(dir, listing, i + 1,
                                    [named EXCEPT !.warnings = Append(@, filename)])
             ELSE LoadFromNameFirst(dir, listing, i + 1,
                                    [named EXCEPT !.known_encodings =
                                        Append(@, face_encodings(image)[1])])

\* ------------------------------------------------------ load_known_faces
\* lines 23-33 for the entries listing[i..]: an unreadable image raises out
\* of load_image_file (line 26, outside the try), an image without a face
\* raises IndexError inside the try and is skipped with a warning
RECURSIVE LoadFrom(_, _, _, _)
LoadFrom(dir, listing, i, acc) ==
    IF i > Len(listing) THEN acc
    ELSE LET filename == listing[i]
             image == dir[filename]
         IN  IF LowerExt(filename.ext) \notin {"png", "jpg", "jpeg"}
             THEN LoadFrom(dir, listing, i + 1, acc)
             ELSE IF ~image.readable
             THEN [acc EXCEPT !.raised = TRUE]
             ELSE IF Len(face_encodings(image)) = 0
             THEN LoadFrom(dir, listing, i + 1,
                           [acc EXCEPT !.warnings = Append(@, filename)])
             ELSE LoadFrom(dir, listing, i + 1,
                           [acc EXCEPT
                              !.known_encodings = Append(@, face_encodings(image)[1]),
                              !.known_names =
                                  Append(@, Title(Replace(filename.stem, "_", " ")))])

load_known_faces(dir, listing) ==
    LoadFrom(dir, listing, 1,
             [raised |-> FALSE, known_encodings |-> <<>>, known_names |-> <<>>,
              warnings |-> <<>>])

\* --------------------------------------------------------------- matcher
\* face_recognition.face_distance, squared: the Euclidean norm of a - b
SqDistance(a, b) ==
    (a[1] - b[1]) * (a[1] - b[1]) + (a[2] - b[2]) * (a[2] - b[2])

\* face_recognition.compare_faces: list(face_distance(...) <= tolerance)
compare_faces(encodings, face_encoding, tol) ==
    [i \in 1..Len(encodings) |-> SqDistance(encodings[i], face_encoding) <= tol * tol]

\* matches.index(True)
IndexOfTrue(matches) ==
    CHOOSE i \in 1..Len(matches) : matches[i] /\ \A j \in 1..(i - 1) : ~matches[j]

Unknown == <<"U", "n", "k", "n", "o", "w", "n">>

\* line 62: True in matches
HasMatch(encodings, face_encoding) ==
    \E i \in 1..Len(encodings) : compare_faces(encodings, face_encoding, tolerance)[i]

\* MatchName choosing the closest reference vector within the tolerance
MatchNameNearest(encodings, names, face_encoding) ==
    IF HasMatch(encodings, face_encoding)
    THEN names[CHOOSE i \in 1..Len(encodings) :
                   \A j \in 1..Len(encodings) :
                       \/ SqDistance(encodings[i], face_encoding)
                              < SqDistance(encodings[j], face_encoding)
                       \/ (/\ SqDistance(encodings[i], face_encoding)
                                 = SqDistance(encodings[j], face_encoding)
                           /\ i <= j)]
    ELSE Unknown

\* lines 60-64: the name recognize_faces gives a face encoding
MatchName(encodings, names, face_encoding) ==
    IF HasMatch(encodings, face_encoding)
    THEN names[IndexOfTrue(compare_faces(encodings, face_encoding, tolerance))]
    ELSE Unknown

\* ------------------------------------------------------------ the ledger
\* pandas.read_csv infers each column's type from all of its cells: a Name
\* column whose cells are all digits is read as integers, any other as text.
\* Date (YYYY-MM-DD) and Time (HH:MM:SS) cells are read back as written.
IsNumeric(text) == Len(text) > 0 /\ \A i \in 1..Len(text) : IsDigit(text[i])

read_csv(file) ==
    LET ints == Len(file) > 0 /\ \A i \in 1..Len(file) : IsNumeric(file[i].Name)
    IN  [i \in 1..Len(file) |->
            [Name |-> <<IF ints THEN "int" ELSE "str", file[i].Name>>,
             Date |-> file[i].Date,
             Time |-> file[i].Time]]

\* lines 42-50, on the frame df read at line 40 and the date of line 41
mark_attendance(df, file, name, today, time) ==
    IF \E i \in 1..Len(df) : df[i].Name = <<"str", name>> /\ df[i].Date = today
    THEN [ret |-> FALSE, file |-> file]
    ELSE [ret |-> TRUE,
          file |-> Append(file, [Name |-> name, Date |-> today, Time |-> time])]

\* ----------------------------------------------------------- enrollment
\* line 98: the path an accepted upload is written to
save_path(text, file) == File(Replace(text, " ", "_"), file.ext)

\* line 99: cv2.imwrite, which creates the file or overwrites it
imwrite(dir, path, image) ==
    [f \in DOMAIN dir \cup {path} |-> IF f = path THEN image ELSE dir[f]]

\* ----------------------------------------------------------------- state
VARIABLES
    known_faces_dir,   \* KNOWN_FACES_DIR: file name -> image
    attendance_file,   \* ATTENDANCE_FILE: the rows under the header
    clock,             \* datetime.now(), in days
    known_encodings,   \* per session: the global of lines 36 and 102
    known_names,       \* per session: the global of lines 36 and 102
    aborted,           \* per session: the last run ended in an exception
    pc,                \* per session: where its script run stands
    form,              \* per session: name and uploaded_files of tab1
    frame,             \* per session: the image recognize_faces works on
    idx,               \* per session: the face of the loop of line 59
    results,           \* per session: results of recognize_faces
    name,              \* per session: name of line 64 / mark_attendance
    df,                \* per session: df of line 40
    today,             \* per session: today of line 41
    out                \* per session: what the handler of the run gave

vars == <<known_faces_dir, attendance_file, clock, known_encodings,
          known_names, aborted, pc, form, frame, idx, results, name, df, today, out>>

shared == <<known_faces_dir, attendance_file, clock>>

locals == <<frame, idx, results, name, df, today>>

NoOut == [op |-> "none"]

NoForm == [name |-> <<>>, files |-> 0, read |-> 0, saved |-> 0, errors |-> <<>>]

NoFrame == Img(<<>>)

\* the values a run leaves in the variables of recognize_faces when it is
\* not inside it
Idle(s) ==
    /\ frame' = [frame EXCEPT ![s] = NoFrame]
    /\ idx' = [idx EXCEPT ![s] = 0]
    /\ results' = [results EXCEPT ![s] = <<>>]
    /\ name' = [name EXCEPT ![s] = <<>>]
    /\ df' = [df EXCEPT ![s] = <<>>]
    /\ today' = [today EXCEPT ![s] = 0]

\* Assign with the loaded entries added to the lists the session held
AssignStale(s, r) ==
    /\ known_encodings' =
           [known_encodings EXCEPT ![s] = IF r.raised THEN <<>> ELSE @ \o r.known_encodings]
    /\ known_names' =
           [known_names EXCEPT ![s] = IF r.raised THEN <<>> ELSE @ \o r.known_names]

\* line 36 (and 102) with the result r of load_known_faces: the assignment
\* happens only when the call returns
Assign(s, r) ==
    /\ known_encodings' =
           [known_encodings EXCEPT ![s] = IF r.raised THEN <<>> ELSE r.known_encodings]
    /\ known_names' =
           [known_names EXCEPT ![s] = IF r.raised THEN <<>> ELSE r.known_names]

\* the run ends in an uncaught exception
Raise(s) ==
    /\ aborted' = [aborted EXCEPT ![s] = TRUE]
    /\ out' = [out EXCEPT ![s] = [op |-> "error"]]
    /\ pc' = [pc EXCEPT ![s] = "idle"]

\* the run goes on to its handler
Proceed(s, to) ==
    /\ aborted' = [aborted EXCEPT ![s] = FALSE]
    /\ out' = [out EXCEPT ![s] = NoOut]
    /\ pc' = [pc EXCEPT ![s] = to]

InitWith(open) ==
    \E dir \in InitDirs : \E ls \in [Sessions -> Listings(dir)] :
        LET r(s) == load_known_faces(dir, ls[s])
        IN  /\ known_faces_dir = dir
            /\ attendance_file = <<>>
            /\ clock = 1
            /\ known_encodings =
                   [s \in Sessions |->
                       IF s \in open /\ ~r(s).raised THEN r(s).known_encodings ELSE <<>>]
            /\ known_names =
                   [s \in Sessions |->
                       IF s \in open /\ ~r(s).raised THEN r(s).known_names ELSE <<>>]
            /\ aborted = [s \in Sessions |-> s \in open /\ r(s).raised]
            /\ pc = [s \in Sessions |-> IF s \in open THEN "idle" ELSE "closed"]
            /\ form = [s \in Sessions |-> NoForm]
            /\ frame = [s \in Sessions |-> NoFrame]
            /\ idx = [s \in Sessions |-> 0]
            /\ results = [s \in Sessions |-> <<>>]
            /\ name = [s \in Sessions |-> <<>>]
            /\ df = [s \in Sessions |-> <<>>]
            /\ today = [s \in Sessions |-> 0]
            /\ out = [s \in Sessions |-> IF s \in open /\ r(s).raised
                                         THEN [op |-> "error"] ELSE NoOut]

\* one browser session, each run processed to completion before the next
Init == InitWith({1})

\* a run of the script with no button pressed (or one whose handler only
\* reads: tab3)
Rerun(s) ==
    /\ pc[s] = "idle"
    /\ \E listing \in Listings(known_faces_dir) :
        LET r == load_known_faces(known_faces_dir, listing)
        IN  Assign(s, r) /\ (IF r.raised THEN Raise(s) ELSE Proceed(s, "idle"))
    /\ Idle(s)
    /\ UNCHANGED <<shared, form>>

\* tab1: line 36, then line 90 with the name typed and the number of files
\* uploaded
Register(s, text, files) ==
    /\ pc[s] = "idle"
    /\ \E listing \in Listings(known_faces_dir) :
        LET r == load_known_faces(known_faces_dir, listing)
        IN  /\ Assign(s, r)
            /\ IF r.raised THEN Raise(s) /\ UNCHANGED form
               ELSE IF text = <<>> \/ files = 0 THEN Proceed(s, "idle") /\ UNCHANGED form
               ELSE /\ Proceed(s, "register")
                    /\ form' = [form EXCEPT ![s] = [NoForm EXCEPT !.name = text,
                                                                  !.files = files]]
    /\ Idle(s)
    /\ UNCHANGED shared

\* lines 91-99 for one file of uploaded_files, read at line 93
RegisterImage(s, file) ==
    /\ pc[s] = "register"
    /\ form[s].read < form[s].files
    /\ IF Len(face_encodings(file.image)) = 0
       THEN /\ form' = [form EXCEPT ![s].read = @ + 1,
                                    ![s].errors = Append(@, form[s].read + 1)]
            /\ UNCHANGED known_faces_dir
       ELSE /\ known_faces_dir' =
                   imwrite(known_faces_dir, save_path(form[s].name, file), file.image)
            /\ Cardinality(DOMAIN known_faces_dir') <= MaxFiles
            /\ form' = [form EXCEPT ![s].read = @ + 1, ![s].saved = @ + 1]
    /\ UNCHANGED <<attendance_file, clock, known_encodings, known_names, aborted,
                   pc, locals, out>>

\* lines 100-102: the loop is over
RegisterDone(s) ==
    /\ pc[s] = "register"
    /\ form[s].read = form[s].files
    /\ \E listing \in Listings(known_faces_dir) :
        LET r == load_known_faces(known_faces_dir, listing)
        IN  /\ IF r.raised
               THEN UNCHANGED <<known_encodings, known_names>>
               ELSE Assign(s, r)
            /\ aborted' = [aborted EXCEPT ![s] = r.raised]
    /\ out' = [out EXCEPT ![s] =
                  [op |-> "Register", name |-> form[s].name, saved |-> form[s].saved,
                   errors |-> form[s].errors, success |-> TRUE]]
    /\ form' = [form EXCEPT ![s] = NoForm]
    /\ pc' = [pc EXCEPT ![s] = "idle"]
    /\ UNCHANGED <<shared, locals>>

\* tab2, lines 110-114, after line 36: tfile.read() follows tfile.write()
\* on the same handle and returns no bytes, cv2.imdecode of no bytes gives
\* no image, and recognize_faces raises on it at line 54
ProcessPhoto(s) ==
    /\ pc[s] = "idle"
    /\ \E listing \in Listings(known_faces_dir) :
        Assign(s, load_known_faces(known_faces_dir, listing))
    /\ Raise(s)
    /\ Idle(s)
    /\ UNCHANGED <<shared, form>>

\* tab2, lines 121-123, after line 36
StartCamera(s) ==
    /\ pc[s] = "idle"
    /\ \E listing \in Listings(known_faces_dir) :
        LET r == load_known_faces(known_faces_dir, listing)
        IN  Assign(s, r) /\ (IF r.raised THEN Raise(s) ELSE Proceed(s, "camera"))
    /\ Idle(s)
    /\ UNCHANGED <<shared, form>>

\* face_recognition.face_locations: a box per face, here its position
face_locations(image) == [i \in 1..Len(image.faces) |-> i]

\* lines 125-128 and 54-58: the camera gives a frame, recognize_faces starts
CameraFrame(s, image) ==
    /\ pc[s] = "camera"
    /\ Len(attendance_file) + Len(image.faces) <= MaxLedger
    /\ frame' = [frame EXCEPT ![s] = image]
    /\ idx' = [idx EXCEPT ![s] = 1]
    /\ results' = [results EXCEPT ![s] = <<>>]
    /\ out' = [out EXCEPT ![s] = NoOut]
    /\ pc' = [pc EXCEPT ![s] = "loop"]
    /\ UNCHANGED <<shared, known_encodings, known_names, aborted, form, name, df, today>>

\* MatchFace giving no result for a face that matches nothing
MatchFaceSilent(s) ==
    /\ pc[s] = "loop"
    /\ idx[s] <= Len(face_encodings(frame[s]))
    /\ LET face_encoding == face_encodings(frame[s])[idx[s]]
       IN  IF HasMatch(known_encodings[s], face_encoding)
           THEN /\ name' = [name EXCEPT ![s] =
                               MatchName(known_encodings[s], known_names[s], face_encoding)]
                /\ df' = [df EXCEPT ![s] = read_csv(attendance_file)]
                /\ today' = [today EXCEPT ![s] = clock]
                /\ pc' = [pc EXCEPT ![s] = "mark"]
                /\ UNCHANGED <<results, idx>>
           ELSE /\ idx' = [idx EXCEPT ![s] = @ + 1]
                /\ UNCHANGED <<results, name, df, today, pc>>
    /\ UNCHANGED <<shared, known_encodings, known_names, aborted, form, frame, out>>

\* lines 59-64 and 69-70 for one face, and, for a face that matches, the
\* entry into mark_attendance: lines 40-41
MatchFace(s) ==
    /\ pc[s] = "loop"
    /\ idx[s] <= Len(face_encodings(frame[s]))
    /\ LET face_encoding == face_encodings(frame[s])[idx[s]]
       IN  IF HasMatch(known_encodings[s], face_encoding)
           THEN /\ name' = [name EXCEPT ![s] =
                               MatchName(known_encodings[s], known_names[s], face_encoding)]
                /\ df' = [df EXCEPT ![s] = read_csv(attendance_file)]
                /\ today' = [today EXCEPT ![s] = clock]
                /\ pc' = [pc EXCEPT ![s] = "mark"]
                /\ UNCHANGED <<results, idx>>
           ELSE /\ results' = [results EXCEPT ![s] = Append(@, <<"Unknown Person">>)]
                /\ idx' = [idx EXCEPT ![s] = @ + 1]
                /\ UNCHANGED <<name, df, today, pc>>
    /\ UNCHANGED <<shared, known_encodings, known_names, aborted, form, frame, out>>

\* lines 42-50 and 65-68: the rest of mark_attendance and its result string
MarkAppend(s) ==
    /\ pc[s] = "mark"
    /\ LET m == mark_attendance(df[s], attendance_file, name[s], today[s], clock)
       IN  /\ attendance_file' = m.file
           /\ results' = [results EXCEPT ![s] =
                  Append(@, <<name[s], IF m.ret THEN "Attendance Marked!"
                                                ELSE "Already Marked Today">>)]
    /\ idx' = [idx EXCEPT ![s] = @ + 1]
    /\ name' = [name EXCEPT ![s] = <<>>]
    /\ df' = [df EXCEPT ![s] = <<>>]
    /\ today' = [today EXCEPT ![s] = 0]
    /\ pc' = [pc EXCEPT ![s] = "loop"]
    /\ UNCHANGED <<known_faces_dir, clock, known_encodings, known_names, aborted,
                   form, frame, out>>

\* lines 72-77 and 128-133: the labels drawn, and what recognize_faces returns
Return(s) ==
    /\ pc[s] = "loop"
    /\ idx[s] > Len(face_encodings(frame[s]))
    /\ out' = [out EXCEPT ![s] =
                  [op |-> "recognize_faces",
                   labels |-> [i \in 1..Len(face_locations(frame[s])) |->
                                  MatchName(known_encodings[s], known_names[s],
                                            face_encodings(frame[s])[i])],
                   results |-> results[s],
                   count |-> Len(face_locations(frame[s]))]]
    /\ pc' = [pc EXCEPT ![s] = "camera"]
    /\ idx' = [idx EXCEPT ![s] = 0]
    /\ results' = [results EXCEPT ![s] = <<>>]
    /\ UNCHANGED <<shared, known_encodings, known_names, aborted, form, frame,
                   name, df, today>>

\* lines 126-127 and 134: the camera gives no frame and the run ends
CameraEnd(s) ==
    /\ pc[s] = "camera"
    /\ pc' = [pc EXCEPT ![s] = "idle"]
    /\ out' = [out EXCEPT ![s] = NoOut]
    /\ Idle(s)
    /\ UNCHANGED <<shared, known_encodings, known_names, aborted, form>>

\* datetime.now() moves on to the next day
Tick ==
    /\ clock < MaxDate
    /\ clock' = clock + 1
    /\ UNCHANGED <<known_faces_dir, attendance_file, known_encodings, known_names,
                   aborted, pc, form, locals, out>>

Step(s) ==
    \/ Rerun(s)
    \/ \E text \in NameInputs, files \in 0..MaxBatch : Register(s, text, files)
    \/ \E file \in Uploads : RegisterImage(s, file)
    \/ RegisterDone(s)
    \/ ProcessPhoto(s)
    \/ StartCamera(s)
    \/ \E faces \in Frames : CameraFrame(s, Img(faces))
    \/ MatchFace(s)
    \/ MarkAppend(s)
    \/ Return(s)
    \/ CameraEnd(s)

Next == Step(1) \/ Tick

Spec == Init /\ [][Next]_vars

\* two browser sessions with their cameras running: Streamlit runs each
\* session's script in a thread of its own, and nothing in app.py locks the
\* ledger file
InitConc == InitWith(Sessions)

StepConc(s) ==
    \/ StartCamera(s)
    \/ \E faces \in Frames : CameraFrame(s, Img(faces))
    \/ MatchFace(s)
    \/ MarkAppend(s)
    \/ Return(s)
    \/ CameraEnd(s)

NextConc == (\E s \in Sessions : StepConc(s)) \/ Tick

SpecConc == InitConc /\ [][NextConc]_vars

\* ------------------------------------------------------------ properties
Vectors == {V0, V6, V10, VFar}

\* a reference vector is within T of a probe
Within(reference, probe) == SqDistance(reference, probe) <= tolerance * tolerance

\* the identity a typed name is enrolled as: stored under the name with _
\* for spaces, loaded with spaces for _ and title-cased
Identity(text) == Title(Replace(Replace(text, " ", "_"), "_", " "))

\* the number of rows of the ledger with a name and a date
Records(n, d) ==
    Cardinality({i \in 1..Len(attendance_file) :
                    attendance_file[i].Name = n /\ attendance_file[i].Date = d})

\* the number of entries of a session's registry with a name and a vector
Entries(names, encodings, n, e) ==
    Cardinality({i \in 1..Len(names) : names[i] = n /\ encodings[i] = e})

\* the persisted reference images that give a name and a vector
Persisted(dir, n, e) ==
    Cardinality({f \in DOMAIN dir :
                    /\ LowerExt(f.ext) \in {"png", "jpg", "jpeg"}
                    /\ dir[f].readable
                    /\ Len(dir[f].faces) > 0
                    /\ Title(Replace(f.stem, "_", " ")) = n
                    /\ dir[f].faces[1] = e})

NamesOf(dir, names) ==
    {names[i] : i \in 1..Len(names)}
        \cup {Title(Replace(f.stem, "_", " ")) : f \in DOMAIN dir}

\* C1: after any sequence of sequential mark_attendance calls the ledger
\* holds at most one record for every (name, date).
C1_AtMostOneRecordPerNameAndDate ==
    \A i \in 1..Len(attendance_file) :
        Records(attendance_file[i].Name, attendance_file[i].Date) <= 1

\* C2: when mark_attendance calls of concurrent sessions interleave, no
\* interleaving leaves two records with the same name and date.
C2_NoDuplicateUnderInterleaving ==
    \A i, j \in 1..Len(attendance_file) :
        i < j => ~(/\ attendance_file[i].Name = attendance_file[j].Name
                   /\ attendance_file[i].Date = attendance_file[j].Date)

\* C3: mark_attendance returns Marked exactly when the ledger has no record
\* for (name, date of the call), and then appends exactly one record and
\* leaves the others as they are; otherwise it returns AlreadyMarked and
\* leaves the ledger as it is.
C3_MarkedIffNoRecord ==
    [][\A s \in Sessions :
          (pc[s] = "mark" /\ pc'[s] = "loop") =>
              LET had == Records(name[s], today[s]) > 0
                  said == results'[s][Len(results'[s])]
              IN  /\ said[1] = name[s]
                  /\ (said[2] = "Attendance Marked!") <=> ~had
                  /\ (said[2] = "Already Marked Today") <=> had
                  /\ had => attendance_file' = attendance_file
                  /\ ~had => /\ Len(attendance_file') = Len(attendance_file) + 1
                             /\ SubSeq(attendance_file', 1, Len(attendance_file))
                                    = attendance_file
                             /\ attendance_file'[Len(attendance_file')].Name = name[s]
                             /\ attendance_file'[Len(attendance_file')].Date = today[s]
      ]_vars

\* C4: a face is given the name owning the first reference vector, in
\* registry order, within T of it (whether or not a later one is closer),
\* "Unknown" when none is within T, and never a name absent from the registry.
C4_FirstMatchInRegistryOrder ==
    \A s \in Sessions :
        /\ pc[s] = "mark" =>
              LET probe == face_encodings(frame[s])[idx[s]]
              IN  \E i \in 1..Len(known_encodings[s]) :
                      /\ Within(known_encodings[s][i], probe)
                      /\ \A j \in 1..(i - 1) : ~Within(known_encodings[s][j], probe)
                      /\ name[s] = known_names[s][i]
        /\ out[s].op = "recognize_faces" =>
              \A k \in 1..out[s].count :
                  LET probe == face_encodings(frame[s])[k]
                      near == {i \in 1..Len(known_encodings[s]) :
                                  Within(known_encodings[s][i], probe)}
                  IN  /\ near = {} => /\ out[s].labels[k] = Unknown
                                      /\ out[s].results[k] = <<"Unknown Person">>
                      /\ near # {} =>
                            \E i \in near :
                                /\ \A j \in near : i <= j
                                /\ out[s].labels[k] = known_names[s][i]
                                /\ out[s].results[k][1] = known_names[s][i]

C4_Witness ==
    /\ pc[1] = "mark"
    /\ Len(known_encodings[1]) = 2
    /\ LET probe == face_encodings(frame[1])[idx[1]]
       IN  /\ Within(known_encodings[1][1], probe)
           /\ Within(known_encodings[1][2], probe)
           /\ SqDistance(known_encodings[1][2], probe)
                 < SqDistance(known_encodings[1][1], probe)
    /\ name[1] = known_names[1][1]
    /\ known_names[1][1] # known_names[1][2]

\* every entry of a session's registry is a name with its reference vector
Paired ==
    \A s \in Sessions : Len(known_names[s]) = Len(known_encodings[s])

\* C5: an enrolled image without a face writes nothing, a batch of such
\* images leaves every registry entry as it was, and every name of the
\* registry has its reference vector.
C5_NoFaceNoEntry ==
    /\ []Paired
    /\ [][\A s \in Sessions :
             /\ (pc[s] = "register" /\ Len(form'[s].errors) > Len(form[s].errors))
                    => known_faces_dir' = known_faces_dir
             /\ (pc[s] = "register" /\ pc'[s] = "idle" /\ form[s].saved = 0)
                    => \A n \in NamesOf(known_faces_dir, known_names[s]), e \in Vectors :
                           Entries(known_names'[s], known_encodings'[s], n, e)
                               = Entries(known_names[s], known_encodings[s], n, e)
         ]_vars

C5_Witness ==
    /\ out[1].op = "Register"
    /\ out[1].saved = 0
    /\ Len(out[1].errors) = 2
    /\ \E i \in 1..Len(known_names[1]) :
           /\ known_names[1][i] = Identity(out[1].name)
           /\ known_encodings[1][i] \in Vectors

\* C6: recognize_faces returns the number of faces detected and one result
\* per face whatever the matches; a face within T of no reference vector
\* gives "Unknown Person" and appends nothing to the ledger.
C6_OneResultPerFace ==
    /\ [](\A s \in Sessions :
            out[s].op = "recognize_faces" =>
                /\ out[s].count = Len(face_encodings(frame[s]))
                /\ Len(out[s].results) = out[s].count
                /\ \A k \in 1..Len(face_encodings(frame[s])) :
                       (\A i \in 1..Len(known_encodings[s]) :
                            ~Within(known_encodings[s][i], face_encodings(frame[s])[k]))
                           => out[s].results[k] = <<"Unknown Person">>)
    /\ [][\A s \in Sessions :
             (/\ pc[s] = "loop"
              /\ Len(results'[s]) = Len(results[s]) + 1
              /\ results'[s][Len(results'[s])] = <<"Unknown Person">>)
                 => attendance_file' = attendance_file
         ]_vars

C6_Witness ==
    /\ out[1].op = "recognize_faces"
    /\ out[1].count = 2
    /\ out[1].results = <<<<"Unknown Person">>, <<"Unknown Person">>>>
    /\ known_names[1] = <<>>
    /\ attendance_file = <<>>

\* C7: once a run has reloaded, recognition matches against exactly the
\* entries the persisted reference images give, the newly enrolled identity
\* among them and nothing left over from an earlier registry.
C7_RegistryIsThePersistedImages ==
    \A s \in Sessions :
        /\ (pc[s] \in {"idle", "camera", "loop", "mark"} /\ ~aborted[s]) =>
              \A n \in NamesOf(known_faces_dir, known_names[s]), e \in Vectors :
                  Entries(known_names[s], known_encodings[s], n, e)
                      = Persisted(known_faces_dir, n, e)
        /\ (out[s].op = "Register" /\ out[s].saved > 0 /\ ~aborted[s]) =>
              \E i \in 1..Len(known_names[s]) : known_names[s][i] = Identity(out[s].name)

C7_Witness ==
    /\ pc[1] = "mark"
    /\ name[1] = Identity(<<"a">>)
    /\ File(<<"a">>, "jpg") \in DOMAIN known_faces_dir
    /\ Len(known_names[1]) = 1

\* C8: the Register handler reports success exactly when at least one image
\* of the batch was accepted.
C8_SuccessIffContributed ==
    \A s \in Sessions :
        out[s].op = "Register" => (out[s].success <=> out[s].saved >= 1)

\* C9: load_known_faces skips unreadable and faceless files and never
\* aborts: every readable, face-bearing image of the directory is in the
\* registry of a session whose run got past line 36.
C9_ReloadSkipsBadFiles ==
    \A s \in Sessions :
        pc[s] \in {"idle", "camera"} =>
            \A n \in NamesOf(known_faces_dir, known_names[s]), e \in Vectors :
                Persisted(known_faces_dir, n, e)
                    <= Entries(known_names[s], known_encodings[s], n, e)

\* the number of reference vectors a registry holds for a name
VectorsOf(names, n) == Cardinality({i \in 1..Len(names) : names[i] = n})

\* C10: the reference vectors of an identity only grow: no step removes a
\* vector from an identity, and a Register run adds one vector to the
\* identity for each image it accepted.
C10_ReferenceVectorsOnlyGrow ==
    [][\A s \in Sessions :
          /\ \A n \in NamesOf(known_faces_dir, known_names[s]), e \in Vectors :
                 Entries(known_names[s], known_encodings[s], n, e)
                     <= Entries(known_names'[s], known_encodings'[s], n, e)
          /\ (pc[s] = "register" /\ pc'[s] = "idle" /\ ~aborted'[s]) =>
                 VectorsOf(known_names'[s], Identity(form[s].name))
                     >= VectorsOf(known_names[s], Identity(form[s].name)) + form[s].saved
      ]_vars

====
